---------------------------- MODULE Spec2Model ----------------------------
(***************************************************************************)
(* Canyon CPQ: the quote approval workflow.                                *)
(*                                                                         *)
(* One quote is modelled.  The module holds four state machines over one   *)
(* set of variables; each leaves the variables of the others untouched:    *)
(*                                                                         *)
(*   SpecDb      the workflow_steps / quotes tables and their triggers     *)
(*               (database setup script), driven by row statements;        *)
(*   SpecPage    the workflow page: QuoteWorkflowManager and the           *)
(*               WorkflowVisualization component it renders;               *)
(*   SpecEngine  a quote driven through WorkflowEngine and the quote form; *)
(*   Spec        the request path: the list/modal handlers, the API client *)
(*               and the step endpoints over the tables and triggers.      *)
(***************************************************************************)
EXTENDS Integers, Sequences, FiniteSets, TLC

VARIABLES
    dbSteps,            \* rows of workflow_steps of the quote, by step_order
    dbStatus,           \* quotes.status; "none" while the quote does not exist
    discount,           \* quotes.discount_percent
    items,              \* number of rows of quote_items
    terminationReason,  \* quotes.termination_reason; "" while it is NULL
    quote,              \* the quote the page has fetched (useQuote)
    workflowSteps,      \* QuoteWorkflowManager state
    isWorkflowStarted,  \* QuoteWorkflowManager state
    steps,              \* WorkflowVisualization state
    draggedStep,        \* WorkflowVisualization state; <<>> while it is null
    selectedAction,     \* WorkflowVisualization state
    rejectionNotes,     \* WorkflowVisualization state
    currentPersona,     \* the persona chosen in the header
    edits,              \* chain edits made on the page so far
    pageOp,             \* the handler that ran last on the page and its outcome
    eQuote,             \* the quote handed to WorkflowEngine
    eOp,                \* the action asked of QuoteActions last and its outcome
    derived,            \* the approval chain derived last, and by which code
    cache,              \* per session: the quote the list has fetched
    req,                \* per session: its request and how far it has got
    version,            \* the version of the quote the endpoints compare
    overlapped,         \* the requests of the two sessions were open together
    modal,              \* QuoteDetailModal: its state, timers and what it reads
    auth                \* Providers state, the stored user and the header sent last

dbVars == <<dbSteps, dbStatus, discount, items, terminationReason>>
pageVars == <<quote, workflowSteps, isWorkflowStarted, steps, draggedStep,
              selectedAction, rejectionNotes, currentPersona, edits, pageOp>>
engineVars == <<eQuote, eOp, derived>>
apiVars == <<cache, req, version, overlapped>>
modalVars == <<modal>>
authVars == <<auth>>
vars == <<dbVars, pageVars, engineVars, apiVars, modalVars, authVars>>

(***************************************************************************)
(* Sequences                                                               *)
(***************************************************************************)
Range(s) == {s[i] : i \in DOMAIN s}

\* Array.prototype.findIndex: the first index satisfying the test, 0 when
\* there is none (JavaScript's -1, shifted to 1-based indices).
FindIndex(s, Test(_)) ==
    IF \E i \in DOMAIN s : Test(s[i])
    THEN CHOOSE i \in DOMAIN s : Test(s[i]) /\ \A j \in 1..(i - 1) : ~Test(s[j])
    ELSE 0

(***************************************************************************)
(* Step identifiers.  An identifier is the sequence of the tokens of its   *)
(* string: <<"uuid", n>> is a key issued by the database, <<"step-", n>>   *)
(* is minted by the preview and by addNewStep, <<"ae-", "step-", n>> by    *)
(* handleWorkflowUpdate.                                                   *)
(***************************************************************************)
Uuid(n) == <<"uuid", n>>
TempId(n) == <<"step-", n>>
AeTempId(n) == <<"ae-", "step-", n>>

\* stepId.toString().startsWith('step-')
StartsWithStep(id) == Len(id) > 0 /\ id[1] = "step-"

(***************************************************************************)
(* The preview chain of the workflow page.                                 *)
(***************************************************************************)
PreviewStep(n, p) == [id |-> TempId(n), persona |-> p, status |-> "pending", order |-> n]

getWorkflowStepsForDiscount(discountPercent) ==
    LET base == <<PreviewStep(1, "ae"), PreviewStep(2, "deal_desk")>>
        withCro == IF discountPercent > 15
                   THEN Append(base, PreviewStep(Len(base) + 1, "cro"))
                   ELSE base
        withFin == IF discountPercent > 40
                   THEN Append(withCro, PreviewStep(Len(withCro) + 1, "finance"))
                   ELSE withCro
        withLegal == Append(withFin, PreviewStep(Len(withFin) + 1, "legal"))
    IN Append(withLegal, PreviewStep(Len(withLegal) + 1, "customer"))

\* The Approval Workflow Preview of CreateQuoteForm, for the overall discount
\* of the items: the approvers it lists, from top to bottom.
FormPreview(overallDiscount) ==
    <<"ae", "deal_desk">>
    \o (IF overallDiscount > 15 THEN <<"cro">> ELSE <<>>)
    \o (IF overallDiscount > 40 THEN <<"finance">> ELSE <<>>)
    \o <<"legal", "customer">>

\* The discounts tried: below, at and above each threshold.
Discounts == {10, 15, 16, 40, 41}

PersonasOf(s) == [i \in DOMAIN s |-> s[i].persona]

\* The persona orders a submitted quote is materialized with.
Chains == {PersonasOf(getWorkflowStepsForDiscount(d)) : d \in Discounts}

(***************************************************************************)
(* The tables and their triggers                                           *)
(***************************************************************************)
\* BEFORE INSERT OR UPDATE ON workflow_steps: sets can_approve on the row
\* and returns it; the statement always goes on.
check_sequential_approval(new, rows) ==
    IF new.step_order = 1
    THEN [new EXCEPT !.can_approve = TRUE]
    ELSE LET prev == {r \in Range(rows) : r.step_order = new.step_order - 1}
         IN [new EXCEPT !.can_approve =
                 \E r \in prev : r.status \in {"approved", "skipped"}]

\* The trigger without its cascade: the customer row is left as it is.
auto_approve_customer_step_NoCascade(old, new, rows, status) ==
    [steps |-> rows, status |-> status]

\* AFTER UPDATE ON workflow_steps, for the row changed from old to new in
\* the table rows (the row already changed); gives the table and the quote
\* status the statement leaves.
auto_approve_customer_step(old, new, rows, status) ==
    IF new.status # "approved" \/ old.status = "approved"
    THEN [steps |-> rows, status |-> status]
    ELSE LET all_internal_approved ==
                 ~\E r \in Range(rows) : /\ r.persona # "customer"
                                         /\ r.status \notin {"approved", "skipped"}
             hit == {i \in DOMAIN rows : /\ rows[i].persona = "customer"
                                         /\ rows[i].status = "pending"}
             upd == [i \in DOMAIN rows |->
                        IF i \in hit
                        THEN check_sequential_approval(
                                 [rows[i] EXCEPT !.status = "approved",
                                                 !.auto_approved = TRUE], rows)
                        ELSE rows[i]]
         IN IF all_internal_approved
            THEN [steps |-> upd,
                  status |-> IF hit # {} THEN "approved" ELSE status]
            ELSE [steps |-> rows, status |-> status]

\* INSERT INTO workflow_steps (quote_id, step_order, persona), one row after
\* the other, each through the BEFORE trigger.
RECURSIVE InsertRows(_, _)
InsertRows(rows, chain) ==
    IF chain = <<>> THEN rows
    ELSE LET n == Len(rows) + 1
             row == [id |-> Uuid(n), step_order |-> n, persona |-> Head(chain),
                     status |-> "pending", can_approve |-> FALSE,
                     auto_approved |-> FALSE]
         IN InsertRows(Append(rows, check_sequential_approval(row, rows)), Tail(chain))

\* UPDATE workflow_steps SET status = s WHERE step_order = i, with both
\* triggers; gives the table and the quote status afterwards.
UpdateStepStatus(rows, status, i, s) ==
    LET old == rows[i]
        new == check_sequential_approval([old EXCEPT !.status = s], rows)
    IN auto_approve_customer_step(old, new, [rows EXCEPT ![i] = new], status)

(***************************************************************************)
(* The step endpoints.  Their code is not part of the sources; they are    *)
(* written from sections 4.1 to 4.5 of the specification, over the tables  *)
(* and triggers above.                                                     *)
(***************************************************************************)
DiscountPolicy(d, c) ==
    LET base == <<"ae", "deal_desk">>
        withCro == IF d > 15 THEN Append(base, "cro") ELSE base
        withFin == IF d > 40 \/ c THEN Append(withCro, "finance") ELSE withCro
    IN withFin \o <<"legal", "customer">>

PendingStatus(p) ==
    CASE p = "deal_desk" -> "pending_deal_desk"
      [] p = "cro" -> "pending_cro"
      [] p = "legal" -> "pending_legal"
      [] p = "finance" -> "pending_finance"
      [] p = "customer" -> "pending_customer"
      [] OTHER -> "pending_ae"

\* The status projected from the rows after an approval.
ProjectStatus(rows) ==
    LET next == FindIndex(rows, LAMBDA r : r.status = "pending")
    IN IF \A i \in DOMAIN rows : rows[i].persona # "customer" => rows[i].status = "approved"
       THEN "approved"
       ELSE IF next = 0 THEN "rejected" ELSE PendingStatus(rows[next].persona)

Failure(rows, status, kind) ==
    [ok |-> FALSE, error |-> kind, steps |-> rows, status |-> status]

Success(rows, status) ==
    [ok |-> TRUE, error |-> "none", steps |-> rows, status |-> status]

\* The submit endpoint without the approval of the account-executive step.
BackendSubmit_NoAutoApproval(rows, status, d, n) ==
    IF status \notin {"draft", "draft_reopened"}
    THEN Failure(rows, status, "InvalidStateError")
    ELSE IF n < 1
    THEN Failure(rows, status, "EmptyQuoteError")
    ELSE LET made == IF rows = <<>> THEN InsertRows(<<>>, DiscountPolicy(d, FALSE)) ELSE rows
         IN Success(made, ProjectStatus(made))

\* The submit endpoint without its guards.
BackendSubmit_Unguarded(rows, status, d, n) ==
    LET made == IF rows = <<>> THEN InsertRows(<<>>, DiscountPolicy(d, FALSE)) ELSE rows
        ae == FindIndex(made, LAMBDA r : r.persona = "ae")
        res == UpdateStepStatus(made, status, ae, "approved")
    IN Success(res.steps, "pending_deal_desk")

BackendSubmit(rows, status, d, n) ==
    IF status \notin {"draft", "draft_reopened"}
    THEN Failure(rows, status, "InvalidStateError")
    ELSE IF n < 1
    THEN Failure(rows, status, "EmptyQuoteError")
    ELSE LET made == IF rows = <<>> THEN InsertRows(<<>>, DiscountPolicy(d, FALSE)) ELSE rows
             ae == FindIndex(made, LAMBDA r : r.persona = "ae")
             res == UpdateStepStatus(made, status, ae, "approved")
         IN Success([res.steps EXCEPT ![ae].auto_approved = TRUE], ProjectStatus(res.steps))

RECURSIVE RejectFrom(_, _, _)
RejectFrom(rows, status, k) ==
    IF k > Len(rows) THEN rows
    ELSE RejectFrom(UpdateStepStatus(rows, status, k, "rejected").steps, status, k + 1)

BackendAct(rows, status, stepId, persona, action, text) ==
    LET k == FindIndex(rows, LAMBDA r : r.id = stepId)
    IN IF StartsWithStep(stepId) \/ k = 0
       THEN Failure(rows, status, "TemporaryIdentifierError")
       ELSE IF status \in {"draft", "draft_reopened", "approved", "rejected", "terminated"}
               \/ rows[k].status # "pending"
       THEN Failure(rows, status, "InvalidStateError")
       ELSE IF rows[k].persona # persona
       THEN Failure(rows, status, "AuthorizationError")
       ELSE IF \E j \in 1..(k - 1) : rows[j].status # "approved"
       THEN Failure(rows, status, "OutOfTurnError")
       ELSE IF action = "reject" /\ text = ""
       THEN Failure(rows, status, "ValidationError")
       ELSE IF action = "reject"
       THEN Success(RejectFrom(rows, status, k), "rejected")
       ELSE LET res == UpdateStepStatus(rows, status, k, "approved")
            IN Success(res.steps, ProjectStatus(res.steps))

\* The reopen endpoint leaving the steps of the rejected run in the table.
BackendReopen_KeepsSteps(rows, status, persona) ==
    IF persona # "ae" THEN Failure(rows, status, "AuthorizationError")
    ELSE IF status # "rejected" THEN Failure(rows, status, "InvalidStateError")
    ELSE Success(rows, "draft_reopened")

BackendReopen(rows, status, persona) ==
    IF persona # "ae" THEN Failure(rows, status, "AuthorizationError")
    ELSE IF status # "rejected" THEN Failure(rows, status, "InvalidStateError")
    ELSE Success(<<>>, "draft_reopened")

\* updateDraftConfiguration: an account-executive step is put back at
\* position 1 and the positions are renumbered.
NormalizeChain(chain) ==
    <<"ae">> \o SelectSeq(chain, LAMBDA p : p # "ae")

BackendUpdateWorkflow(rows, status, persona, payload) ==
    IF persona # "ae" THEN Failure(rows, status, "AuthorizationError")
    ELSE IF status \notin {"draft", "draft_reopened"}
    THEN Failure(rows, status, "InvalidStateError")
    ELSE Success(InsertRows(<<>>, NormalizeChain(PersonasOf(payload))), status)

(***************************************************************************)
(* The workflow page: QuoteWorkflowManager                                 *)
(***************************************************************************)
NoQuote == [status |-> "none", discount_percent |-> 0, workflow_steps |-> <<>>]

\* GET /api/quotes/{id}: the row of the quote with its steps.
ApiQuote(rows, status, d) ==
    [status |-> status, discount_percent |-> d, workflow_steps |-> rows]

NoSelection == [stepId |-> <<>>, action |-> "none"]

NoDrag == <<>>

\* The statuses of a quote that is not submitted.
Drafts == {"draft", "draft_reopened"}

NoOp == [op |-> "none", stepId |-> <<>>, outcome |-> "none"]

Op(name, id, result) == [op |-> name, stepId |-> id, outcome |-> result]

\* The persona select of the header.
Personas == {"ae", "deal_desk", "cro", "legal", "finance"}

\* The effect on [quote]: the steps shown and whether the workflow started.
QuoteEffect(q) ==
    LET workflowStarted == q.status # "draft" /\ q.status # "draft_reopened"
        transformed(keep) ==
            [i \in DOMAIN q.workflow_steps |->
                [id |-> q.workflow_steps[i].id,
                 persona |-> q.workflow_steps[i].persona,
                 status |-> IF keep THEN q.workflow_steps[i].status ELSE "pending",
                 order |-> q.workflow_steps[i].step_order]]
    IN [isWorkflowStarted |-> workflowStarted,
        workflowSteps |->
            IF workflowStarted
            THEN transformed(TRUE)
            ELSE IF q.workflow_steps # <<>>
                 THEN transformed(FALSE)
                 ELSE getWorkflowStepsForDiscount(q.discount_percent)]

\* The map over (step, index) that leaves the order of each step as it was.
Renumber_Keep(s) == s

Renumber(s) == [i \in DOMAIN s |-> [s[i] EXCEPT !.order = i]]

\* QuoteWorkflowManager.handleStepAction: the steps it sets, and whether it
\* set any (a step it sets carries a new completedAt).
ManagerStepAction(ws, stepId, action) ==
    IF StartsWithStep(stepId)
    THEN [steps |-> ws, set |-> FALSE]
    ELSE LET updatedSteps ==
                 [i \in DOMAIN ws |->
                     IF ws[i].id = stepId
                     THEN [ws[i] EXCEPT !.status = IF action = "approve"
                                                   THEN "approved" ELSE "rejected"]
                     ELSE ws[i]]
             legal == FindIndex(updatedSteps, LAMBDA s : s.persona = "legal")
             final == legal # 0 /\ updatedSteps[legal].status = "approved"
                                /\ action = "approve"
             finalSteps ==
                 [i \in DOMAIN updatedSteps |->
                     IF updatedSteps[i].persona = "customer"
                     THEN [updatedSteps[i] EXCEPT !.status = "approved"]
                     ELSE updatedSteps[i]]
         IN [steps |-> IF final THEN finalSteps ELSE updatedSteps,
             set |-> \/ \E i \in DOMAIN ws : ws[i].id = stepId
                     \/ final /\ \E i \in DOMAIN ws : ws[i].persona = "customer"]

\* Date.now() in an identifier: a number no other identifier carries.
Now == 0

\* QuoteWorkflowManager.handleWorkflowUpdate: the steps it sets.
\* handleWorkflowUpdate keeping the chain as the visualization gave it.
ManagerWorkflowUpdate_AsGiven(wsteps) == wsteps

ManagerWorkflowUpdate(wsteps) ==
    LET aeStepIndex == FindIndex(wsteps, LAMBDA s : s.persona = "ae")
        aeStep == [id |-> AeTempId(Now), persona |-> "ae", status |-> "pending", order |-> 1]
    IN IF aeStepIndex = 0
       THEN Renumber(<<aeStep>> \o wsteps)
       ELSE IF aeStepIndex # 1
       THEN Renumber(<<wsteps[aeStepIndex]>>
                     \o SubSeq(wsteps, 1, aeStepIndex - 1)
                     \o SubSeq(wsteps, aeStepIndex + 1, Len(wsteps)))
       ELSE wsteps

\* The body of the PUT request of handleWorkflowUpdate.
stepsToSave(updatedSteps) ==
    [i \in DOMAIN updatedSteps |->
        [id |-> IF Len(updatedSteps[i].id) > 1 /\ updatedSteps[i].id[1] = "ae-"
                                              /\ updatedSteps[i].id[2] = "step-"
                THEN <<>> ELSE updatedSteps[i].id,
         persona |-> updatedSteps[i].persona,
         step_order |-> updatedSteps[i].order,
         status |-> updatedSteps[i].status]]

(***************************************************************************)
(* The workflow page: WorkflowVisualization                                *)
(***************************************************************************)
\* String.prototype.trim on the texts typed.
Trim(t) == IF t = " " THEN "" ELSE t

Notes == {"", " ", "too expensive"}

canDragAndDrop == ~isWorkflowStarted /\ currentPersona = "ae"

canTakeAction(step) ==
    IF currentPersona = "ae" THEN FALSE
    ELSE IF step.status # "pending" \/ step.persona # currentPersona THEN FALSE
    ELSE LET currentStepIndex == FindIndex(steps, LAMBDA s : s.id = step.id)
         IN \A j \in 1..(currentStepIndex - 1) : steps[j].status = "approved"

\* The steps WorkflowVisualization.handleStepAction sets; ran is FALSE when
\* it returns before setting any.
VizStepAction(local, stepId, action, notes) ==
    IF action = "reject" /\ Trim(notes) = ""
    THEN [steps |-> local, ran |-> FALSE]
    ELSE IF StartsWithStep(stepId)
    THEN [steps |-> local, ran |-> FALSE]
    ELSE LET stepIndex == FindIndex(local, LAMBDA s : s.id = stepId)
         IN [steps |->
                 [i \in DOMAIN local |->
                     IF action = "reject"
                     THEN IF i >= stepIndex
                          THEN [local[i] EXCEPT !.status = "rejected"]
                          ELSE local[i]
                     ELSE IF local[i].id = stepId
                          THEN [local[i] EXCEPT !.status = "approved"]
                          ELSE local[i]],
             ran |-> TRUE]

\* The steps of the component after its parent set parentSteps: the effect
\* on the workflow prop copies a changed, non-empty prop.
Synced(parentSteps, changed, local) ==
    IF changed /\ parentSteps # <<>> THEN parentSteps ELSE local

\* handleDrop: the dragged step is taken out and put at the target's index.
Dropped(local, draggedIndex, targetIndex) ==
    LET without == SubSeq(local, 1, draggedIndex - 1)
                   \o SubSeq(local, draggedIndex + 1, Len(local))
    IN Renumber(SubSeq(without, 1, targetIndex - 1)
                \o <<local[draggedIndex]>>
                \o SubSeq(without, targetIndex, Len(without)))

NoModal == [phase |-> "closed", persona |-> "ae", attempts |-> 0,
            shown |-> FALSE, last |-> FALSE, visible |-> "none"]

ModalClosed == modal = NoModal

\* The browser after the session check: signed in, the dashboard shown, the
\* stored user holding persona 'ae', no request made yet.
SignedIn == [session |-> TRUE, user |-> TRUE, loading |-> FALSE, token |-> TRUE,
             storage |-> "ae", route |-> "dashboard", header |-> "none",
             requests |-> 0]

AuthIdle == auth = SignedIn

PageClosed ==
    /\ draggedStep = NoDrag
    /\ quote = NoQuote
    /\ workflowSteps = <<>>
    /\ isWorkflowStarted = FALSE
    /\ steps = <<>>
    /\ selectedAction = NoSelection
    /\ rejectionNotes = ""
    /\ currentPersona = "ae"
    /\ edits = 0
    /\ pageOp = NoOp

(***************************************************************************)
(* WorkflowEngine                                                          *)
(***************************************************************************)
EngineStep(n, p) == [id |-> TempId(n), persona |-> p, order |-> n, status |-> "pending"]

generateWorkflowSteps(q) ==
    LET first == <<EngineStep(1, "deal_desk")>>
        withCro == IF q.discount_percent > 15 \/ q.total_amount > 100000
                   THEN Append(first, EngineStep(Len(first) + 1, "cro"))
                   ELSE first
        withLegal == Append(withCro, EngineStep(Len(withCro) + 1, "legal"))
    IN IF q.discount_percent > 40 \/ q.has_custom_payment_terms
       THEN Append(withLegal, EngineStep(Len(withLegal) + 1, "finance"))
       ELSE withLegal

getNextStatus(currentStatus, action) ==
    CASE currentStatus \in {"draft", "draft_reopened"} /\ action = "submit" -> "pending_deal_desk"
      [] currentStatus \in {"draft", "draft_reopened"} /\ action = "cancel" -> "cancelled"
      [] currentStatus = "pending_deal_desk" /\ action = "approve" -> "pending_cro"
      [] currentStatus = "pending_cro" /\ action = "approve" -> "pending_legal"
      [] currentStatus = "pending_legal" /\ action = "approve" -> "pending_finance"
      [] currentStatus = "pending_finance" /\ action = "approve" -> "approved"
      [] /\ currentStatus \in {"pending_deal_desk", "pending_cro", "pending_legal",
                               "pending_finance"}
         /\ action = "reject" -> "rejected"
      [] /\ currentStatus \in {"pending_deal_desk", "pending_cro", "pending_legal",
                               "pending_finance"}
         /\ action = "cancel" -> "cancelled"
      [] currentStatus = "rejected" /\ action = "reopen" -> "draft_reopened"
      [] OTHER -> currentStatus

\* canPerformAction letting the account executive cancel in every status.
canPerformAction_CancelAlways(q, persona, action) ==
    IF /\ persona = "ae"
       /\ \/ action = "cancel"
          \/ action = "reopen" /\ q.status = "rejected"
          \/ action = "submit" /\ q.status \in {"draft", "draft_reopened"}
    THEN TRUE
    ELSE IF action \in {"approve", "reject"}
    THEN q.status = PendingStatus(persona)
    ELSE FALSE

canPerformAction(q, persona, action) ==
    IF /\ persona = "ae"
       /\ \/ action = "cancel" /\ q.status # "approved"
          \/ action = "reopen" /\ q.status = "rejected"
          \/ action = "submit" /\ q.status \in {"draft", "draft_reopened"}
    THEN TRUE
    ELSE IF action \in {"approve", "reject"}
    THEN q.status = PendingStatus(persona)
    ELSE FALSE

\* QuoteActions.getAvailableActions: the actions it shows a button for.
getAvailableActions(q, persona) ==
    IF persona = "ae"
    THEN (IF q.status \in {"draft", "draft_reopened"} THEN {"submit"} ELSE {})
         \cup (IF q.status = "rejected" THEN {"reopen"} ELSE {})
         \cup (IF q.status \notin {"approved", "cancelled", "rejected"}
               THEN {"cancel"} ELSE {})
    ELSE IF q.status = PendingStatus(persona) THEN {"approve", "reject"} ELSE {}

\* QuoteDetailModal.canManageRejectedQuote: the modal shows Reopen and
\* Terminate.
canManageRejectedQuote(q, persona) == persona = "ae" /\ q.status = "rejected"

NoEngineOp == [action |-> "none", persona |-> "ae", outcome |-> "none"]

NoDerivation == [by |-> "none", chain |-> <<>>]

EngineIdle ==
    /\ eQuote = [status |-> "draft", discount_percent |-> 0, total_amount |-> 0,
                 has_custom_payment_terms |-> FALSE]
    /\ eOp = NoEngineOp
    /\ derived = NoDerivation

(***************************************************************************)
(* The quote list and the request path                                     *)
(***************************************************************************)
Sessions == {1, 2}

NoRequest == [phase |-> "idle", kind |-> "none", stepId |-> <<>>, persona |-> "ae",
              comments |-> "", text |-> "", seen |-> 0, result |-> "none"]

ApiIdle ==
    /\ cache = [s \in Sessions |-> NoQuote]
    /\ req = [s \in Sessions |-> NoRequest]
    /\ version = 0
    /\ overlapped = FALSE

(***************************************************************************)
(* Row statements on the tables                                            *)
(***************************************************************************)
SqlInsertSteps(chain) ==
    /\ dbSteps = <<>>
    /\ dbSteps' = InsertRows(<<>>, chain)
    /\ UNCHANGED <<dbStatus, discount, items, terminationReason, pageVars>>
    /\ UNCHANGED <<engineVars, modalVars, authVars, apiVars>>

\* A row statement of the step endpoints: a step is set approved or
\* rejected.  No actor holds the customer persona, so the customer row is
\* set approved by the trigger alone.
SqlUpdateStepStatus(i, s) ==
    /\ i \in DOMAIN dbSteps
    /\ ~(dbSteps[i].persona = "customer" /\ s = "approved")
    /\ LET res == UpdateStepStatus(dbSteps, dbStatus, i, s)
       IN /\ dbSteps' = res.steps
          /\ dbStatus' = res.status
    /\ UNCHANGED <<discount, items, terminationReason, pageVars>>
    /\ UNCHANGED <<engineVars, modalVars, authVars, apiVars>>

\* DELETE FROM workflow_steps WHERE quote_id = ...
SqlDeleteSteps ==
    /\ dbSteps # <<>>
    /\ dbSteps' = <<>>
    /\ dbStatus' = "draft"
    /\ UNCHANGED <<discount, items, terminationReason, pageVars>>
    /\ UNCHANGED <<engineVars, modalVars, authVars, apiVars>>

InitDb ==
    /\ dbSteps = <<>>
    /\ dbStatus = "draft"
    /\ discount = 0
    /\ items = 1
    /\ terminationReason = ""
    /\ PageClosed
    /\ ModalClosed
    /\ AuthIdle
    /\ EngineIdle
    /\ ApiIdle

NextDb ==
    \/ \E c \in Chains : SqlInsertSteps(c)
    \/ \E i \in DOMAIN dbSteps, s \in {"approved", "rejected"} : SqlUpdateStepStatus(i, s)
    \/ SqlDeleteSteps

SpecDb == InitDb /\ [][NextDb]_vars

(***************************************************************************)
(* The workflow page.  WorkflowVisualization is taken with the persona of  *)
(* the header as its currentPersona, the way the modal passes it, and with *)
(* compact = false and the handlers of the manager, the way the manager    *)
(* passes them.  (The manager itself passes the persona "ae", for which    *)
(* the component shows no Approve or Reject button.)                       *)
(***************************************************************************)
MaxItems == 1
MaxEdits == 1

\* The discounts of the quotes opened on the page: the shortest and the
\* longest chain.
PageDiscounts == {15, 16}

\* A row of the quote form: has it a name, and its unit price.
FormItems == [name : {"", "Seats"}, unitPrice : {0, 100}]

FormInputs == UNION {[1..n -> FormItems] : n \in 0..MaxItems}

transformedItems(rows) == SelectSeq(rows, LAMBDA item : item.name # "" /\ item.unitPrice > 0)

\* The page takes the quote fetched: the effect on [quote], then the effect
\* of the component on its workflow prop (the component is mounted while
\* there are steps to show).
LoadQuote(q) ==
    LET e == QuoteEffect(q)
    IN /\ quote' = q
       /\ isWorkflowStarted' = e.isWorkflowStarted
       /\ workflowSteps' = e.workflowSteps
       /\ steps' = IF e.workflowSteps = <<>> THEN <<>>
                   ELSE Synced(e.workflowSteps,
                               workflowSteps = <<>> \/ e.workflowSteps # workflowSteps,
                               steps)
       /\ selectedAction' = IF e.workflowSteps = <<>> THEN NoSelection ELSE selectedAction
       /\ rejectionNotes' = IF e.workflowSteps = <<>> THEN "" ELSE rejectionNotes
       /\ draggedStep' = IF e.workflowSteps = <<>> THEN NoDrag ELSE draggedStep

\* CreateQuoteForm.handleSubmit, for a form with its required fields filled.
FormSubmit(rows, d) ==
    /\ dbStatus = "none"
    /\ IF Len(transformedItems(rows)) = 0
       THEN /\ pageOp' = Op("create", <<>>, "error")
            /\ UNCHANGED draggedStep
            /\ UNCHANGED <<dbVars, quote, workflowSteps, isWorkflowStarted, steps,
                           selectedAction, rejectionNotes, currentPersona, edits>>
       ELSE /\ dbStatus' = "draft"
            /\ dbSteps' = <<>>
            /\ discount' = d
            /\ items' = Len(transformedItems(rows))
            /\ pageOp' = Op("create", <<>>, "applied")
            /\ UNCHANGED draggedStep
            /\ UNCHANGED <<terminationReason, quote, workflowSteps, isWorkflowStarted,
                           steps, selectedAction, rejectionNotes, currentPersona, edits>>
    /\ UNCHANGED <<engineVars, modalVars, authVars, apiVars>>

\* PUT /api/quotes/{id}: the attributes of a quote are changed by the account
\* executive while it is a draft.  The code of the endpoint is not part of
\* the sources; section 3 of the specification.  The steps stay.
BackendUpdateQuote(rows, status, persona) ==
    IF persona # "ae" THEN Failure(rows, status, "AuthorizationError")
    ELSE IF status \notin Drafts THEN Failure(rows, status, "InvalidStateError")
    ELSE Success(rows, status)

\* CreateQuoteForm.handleSubmit for an existing quote (?draft=id), the items
\* changed so that calculateOverallDiscount gives d: updateQuote, then the
\* router leaves for the workflow page, which is mounted anew.
FormUpdate(d) ==
    /\ dbStatus # "none"
    /\ d # discount
    /\ LET res == BackendUpdateQuote(dbSteps, dbStatus, currentPersona)
       IN IF res.ok
          THEN /\ discount' = d
               /\ pageOp' = Op("update", <<>>, "applied")
               /\ quote' = NoQuote
               /\ workflowSteps' = <<>>
               /\ isWorkflowStarted' = FALSE
               /\ steps' = <<>>
               /\ draggedStep' = NoDrag
               /\ selectedAction' = NoSelection
               /\ rejectionNotes' = ""
          ELSE /\ discount' = discount
               /\ pageOp' = Op("update", <<>>, "error")
               /\ UNCHANGED <<quote, workflowSteps, isWorkflowStarted, steps,
                              draggedStep, selectedAction, rejectionNotes>>
    /\ UNCHANGED <<dbSteps, dbStatus, items, terminationReason, currentPersona, edits>>
    /\ UNCHANGED <<engineVars, modalVars, authVars, apiVars>>

\* useQuote delivers the quote, first or again after it changed.
QuoteLoaded ==
    /\ dbStatus # "none"
    /\ ApiQuote(dbSteps, dbStatus, discount) # quote
    /\ LoadQuote(ApiQuote(dbSteps, dbStatus, discount))
    /\ pageOp' = Op("load", <<>>, "applied")
    /\ UNCHANGED <<dbVars, currentPersona, edits>>
    /\ UNCHANGED <<engineVars, modalVars, authVars, apiVars>>

SetPersona(p) ==
    /\ p # currentPersona
    /\ currentPersona' = p
    /\ pageOp' = Op("persona", <<>>, "applied")
    /\ UNCHANGED draggedStep
    /\ UNCHANGED <<dbVars, quote, workflowSteps, isWorkflowStarted, steps,
                   selectedAction, rejectionNotes, edits>>
    /\ UNCHANGED <<engineVars, modalVars, authVars, apiVars>>

\* handleStartWorkflow: the button is shown while the workflow is not started.
StartWorkflow ==
    /\ quote # NoQuote
    /\ ~isWorkflowStarted
    /\ LET res == BackendSubmit(dbSteps, dbStatus, discount, items)
       IN IF res.ok
          THEN /\ dbSteps' = res.steps
               /\ dbStatus' = res.status
               /\ LoadQuote(ApiQuote(res.steps, res.status, discount))
               /\ pageOp' = Op("start", <<>>, "applied")
               /\ UNCHANGED <<discount, items, terminationReason, currentPersona, edits>>
          ELSE /\ pageOp' = Op("start", <<>>, "error")
               /\ UNCHANGED draggedStep
               /\ UNCHANGED <<dbVars, quote, workflowSteps, isWorkflowStarted, steps,
                              selectedAction, rejectionNotes, currentPersona, edits>>
    /\ UNCHANGED <<engineVars, modalVars, authVars, apiVars>>

\* WorkflowVisualization.handleStepAction with the handleStepAction of the
\* manager as onStepAction, then the effect on the workflow prop.
StepAction(stepId, action) ==
    LET v == VizStepAction(steps, stepId, action, rejectionNotes)
        m == ManagerStepAction(workflowSteps, stepId, action)
    IN IF v.ran
       THEN /\ workflowSteps' = m.steps
            /\ steps' = Synced(m.steps, m.set, v.steps)
            /\ selectedAction' = NoSelection
            /\ rejectionNotes' = ""
            /\ pageOp' = Op(action, stepId, "applied")
            /\ UNCHANGED draggedStep
            /\ UNCHANGED <<dbVars, quote, isWorkflowStarted, currentPersona, edits>>
       ELSE /\ pageOp' = Op(action, stepId, "ignored")
            /\ UNCHANGED draggedStep
            /\ UNCHANGED <<dbVars, quote, workflowSteps, isWorkflowStarted, steps,
                           selectedAction, rejectionNotes, currentPersona, edits>>

\* The Approve button of a step.
ClickApprove(i) ==
    /\ i \in DOMAIN steps
    /\ canTakeAction(steps[i])
    /\ StepAction(steps[i].id, "approve")
    /\ UNCHANGED <<engineVars, modalVars, authVars, apiVars>>

\* The Reject button of a step opens the rejection panel.
ClickReject(i) ==
    /\ i \in DOMAIN steps
    /\ canTakeAction(steps[i])
    /\ selectedAction' = [stepId |-> steps[i].id, action |-> "reject"]
    /\ pageOp' = Op("select", steps[i].id, "applied")
    /\ UNCHANGED draggedStep
    /\ UNCHANGED <<dbVars, quote, workflowSteps, isWorkflowStarted, steps,
                   rejectionNotes, currentPersona, edits>>
    /\ UNCHANGED <<engineVars, modalVars, authVars, apiVars>>

TypeNotes(t) ==
    /\ steps # <<>>
    /\ selectedAction.action = "reject"
    /\ t # rejectionNotes
    /\ rejectionNotes' = t
    /\ pageOp' = Op("type", selectedAction.stepId, "applied")
    /\ UNCHANGED draggedStep
    /\ UNCHANGED <<dbVars, quote, workflowSteps, isWorkflowStarted, steps,
                   selectedAction, currentPersona, edits>>
    /\ UNCHANGED <<engineVars, modalVars, authVars, apiVars>>

\* The Confirm Rejection button, disabled while the reason is blank.
ConfirmRejection ==
    /\ steps # <<>>
    /\ selectedAction.action = "reject"
    /\ Trim(rejectionNotes) # ""
    /\ StepAction(selectedAction.stepId, "reject")
    /\ UNCHANGED <<engineVars, modalVars, authVars, apiVars>>

CancelRejection ==
    /\ steps # <<>>
    /\ selectedAction.action = "reject"
    /\ selectedAction' = NoSelection
    /\ rejectionNotes' = ""
    /\ pageOp' = Op("cancel", selectedAction.stepId, "applied")
    /\ UNCHANGED draggedStep
    /\ UNCHANGED <<dbVars, quote, workflowSteps, isWorkflowStarted, steps,
                   currentPersona, edits>>
    /\ UNCHANGED <<engineVars, modalVars, authVars, apiVars>>

\* handleDrop with handleWorkflowUpdate as onWorkflowUpdate: the chain is
\* reordered, normalized and, for a draft, saved.
handleDrop(draggedIndex, targetIndex) ==
    /\ canDragAndDrop
    /\ draggedIndex \in DOMAIN steps
    /\ targetIndex \in DOMAIN steps
    /\ steps[draggedIndex].id # steps[targetIndex].id
    /\ LET updatedSteps == Dropped(steps, draggedIndex, targetIndex)
           m == ManagerWorkflowUpdate(updatedSteps)
           res == BackendUpdateWorkflow(dbSteps, dbStatus, currentPersona, stepsToSave(m))
       IN /\ workflowSteps' = m
          /\ steps' = Synced(m, m # workflowSteps, updatedSteps)
          /\ IF ~isWorkflowStarted /\ quote # NoQuote /\ res.ok
             THEN /\ dbSteps' = res.steps
                  /\ pageOp' = Op("drop", steps[draggedIndex].id, "applied")
                  /\ UNCHANGED draggedStep
             ELSE /\ dbSteps' = dbSteps
                  /\ pageOp' = Op("drop", steps[draggedIndex].id, "error")
                  /\ UNCHANGED draggedStep
    /\ edits' = edits + 1
    /\ UNCHANGED <<dbStatus, discount, items, terminationReason, quote,
                   isWorkflowStarted, selectedAction, rejectionNotes, currentPersona>>
    /\ UNCHANGED <<engineVars, modalVars, authVars, apiVars>>

Drop(draggedIndex, targetIndex) ==
    /\ edits < MaxEdits
    /\ handleDrop(draggedIndex, targetIndex)

\* Date.now() at the edit made after n others, in `step-${Date.now()}`: a
\* number above every position of a chain.
DateNow(n) == 1000 + n

\* The button Add Approval Step and a persona of the panel it opens:
\* addNewStep with handleWorkflowUpdate as onWorkflowUpdate.
addNewStep(persona) ==
    /\ canDragAndDrop
    /\ steps # <<>>
    /\ LET newStep == [id |-> TempId(DateNow(edits)), persona |-> persona,
                       status |-> "pending", order |-> Len(steps) + 1]
           updatedSteps == Append(steps, newStep)
           m == ManagerWorkflowUpdate(updatedSteps)
           res == BackendUpdateWorkflow(dbSteps, dbStatus, currentPersona, stepsToSave(m))
       IN /\ workflowSteps' = m
          /\ steps' = Synced(m, m # workflowSteps, updatedSteps)
          /\ IF ~isWorkflowStarted /\ quote # NoQuote /\ res.ok
             THEN /\ dbSteps' = res.steps
                  /\ pageOp' = Op("add", newStep.id, "applied")
                  /\ UNCHANGED draggedStep
             ELSE /\ dbSteps' = dbSteps
                  /\ pageOp' = Op("add", newStep.id, "error")
                  /\ UNCHANGED draggedStep
    /\ edits' = edits + 1
    /\ UNCHANGED <<dbStatus, discount, items, terminationReason, quote,
                   isWorkflowStarted, selectedAction, rejectionNotes, currentPersona>>
    /\ UNCHANGED <<engineVars, modalVars, authVars, apiVars>>

\* The trash button of a step: removeStep with handleWorkflowUpdate as
\* onWorkflowUpdate.  The manager shows the component while it has steps.
removeStep(i) ==
    /\ canDragAndDrop
    /\ i \in DOMAIN steps
    /\ LET filteredSteps == SubSeq(steps, 1, i - 1) \o SubSeq(steps, i + 1, Len(steps))
           reorderedSteps == Renumber(filteredSteps)
           m == ManagerWorkflowUpdate(reorderedSteps)
           res == BackendUpdateWorkflow(dbSteps, dbStatus, currentPersona, stepsToSave(m))
       IN /\ workflowSteps' = m
          /\ steps' = Synced(m, m # workflowSteps, reorderedSteps)
          /\ IF ~isWorkflowStarted /\ quote # NoQuote /\ res.ok
             THEN /\ dbSteps' = res.steps
                  /\ pageOp' = Op("remove", steps[i].id, "applied")
                  /\ UNCHANGED draggedStep
             ELSE /\ dbSteps' = dbSteps
                  /\ pageOp' = Op("remove", steps[i].id, "error")
                  /\ UNCHANGED draggedStep
    /\ edits' = edits + 1
    /\ UNCHANGED <<dbStatus, discount, items, terminationReason, quote,
                   isWorkflowStarted, selectedAction, rejectionNotes, currentPersona>>
    /\ UNCHANGED <<engineVars, modalVars, authVars, apiVars>>

\* handleDragStart on a step: the guard of the drag is here.
handleDragStart(i) ==
    /\ canDragAndDrop
    /\ i \in DOMAIN steps
    /\ draggedStep' = steps[i].id
    /\ pageOp' = Op("dragstart", steps[i].id, "applied")
    /\ UNCHANGED <<dbVars, quote, workflowSteps, isWorkflowStarted, steps,
                   selectedAction, rejectionNotes, currentPersona, edits>>
    /\ UNCHANGED <<engineVars, modalVars, authVars, apiVars>>

\* handleDrop on a step while a step is dragged, with handleWorkflowUpdate
\* as onWorkflowUpdate: it looks the dragged step up by its identifier and
\* does not look at canDragAndDrop.
handleDropOn(targetIndex) ==
    /\ targetIndex \in DOMAIN steps
    /\ draggedStep # NoDrag
    /\ draggedStep' = NoDrag
    /\ LET draggedIndex == FindIndex(steps, LAMBDA st : st.id = draggedStep)
           updatedSteps == Dropped(steps, draggedIndex, targetIndex)
           m == ManagerWorkflowUpdate(updatedSteps)
           res == BackendUpdateWorkflow(dbSteps, dbStatus, currentPersona, stepsToSave(m))
       IN IF draggedIndex = 0 \/ draggedStep = steps[targetIndex].id
          THEN /\ pageOp' = Op("drop", draggedStep, "ignored")
               /\ UNCHANGED <<dbSteps, workflowSteps, steps, edits>>
          ELSE /\ workflowSteps' = m
               /\ steps' = Synced(m, m # workflowSteps, updatedSteps)
               /\ edits' = edits + 1
               /\ IF ~isWorkflowStarted /\ quote # NoQuote
                  THEN IF res.ok
                       THEN /\ dbSteps' = res.steps
                            /\ pageOp' = Op("drop", draggedStep, "applied")
                       ELSE /\ dbSteps' = dbSteps
                            /\ pageOp' = Op("drop", draggedStep, "error")
                  ELSE /\ dbSteps' = dbSteps
                       /\ pageOp' = Op("drop", draggedStep, "unsaved")
    /\ UNCHANGED <<dbStatus, discount, items, terminationReason, quote,
                   isWorkflowStarted, selectedAction, rejectionNotes, currentPersona>>
    /\ UNCHANGED <<engineVars, modalVars, authVars, apiVars>>

\* Another session of the application acts on the quote through the step
\* endpoints: the persona of the step next in turn approves or rejects it.
OtherSessionActs(i, action) ==
    /\ i \in DOMAIN dbSteps
    /\ LET res == BackendAct(dbSteps, dbStatus, dbSteps[i].id, dbSteps[i].persona,
                             action, "too expensive")
       IN /\ res.ok
          /\ dbSteps' = res.steps
          /\ dbStatus' = res.status
    /\ pageOp' = Op("other", dbSteps[i].id, "applied")
    /\ UNCHANGED draggedStep
    /\ UNCHANGED <<discount, items, terminationReason, quote, workflowSteps,
                   isWorkflowStarted, steps, selectedAction, rejectionNotes,
                   currentPersona, edits>>
    /\ UNCHANGED <<engineVars, modalVars, authVars, apiVars>>

\* Another session reopens the rejected quote.
OtherSessionReopens ==
    /\ LET res == BackendReopen(dbSteps, dbStatus, "ae")
       IN /\ res.ok
          /\ dbSteps' = res.steps
          /\ dbStatus' = res.status
    /\ pageOp' = Op("other", <<>>, "applied")
    /\ UNCHANGED draggedStep
    /\ UNCHANGED <<discount, items, terminationReason, quote, workflowSteps,
                   isWorkflowStarted, steps, selectedAction, rejectionNotes,
                   currentPersona, edits>>
    /\ UNCHANGED <<engineVars, modalVars, authVars, apiVars>>

\* Another session starts the workflow of the quote.
OtherSessionStarts ==
    /\ dbStatus # "none"
    /\ LET res == BackendSubmit(dbSteps, dbStatus, discount, items)
       IN /\ res.ok
          /\ dbSteps' = res.steps
          /\ dbStatus' = res.status
    /\ pageOp' = Op("otherstart", <<>>, "applied")
    /\ UNCHANGED draggedStep
    /\ UNCHANGED <<discount, items, terminationReason, quote, workflowSteps,
                   isWorkflowStarted, steps, selectedAction, rejectionNotes,
                   currentPersona, edits>>
    /\ UNCHANGED <<engineVars, modalVars, authVars, apiVars>>

InitPage ==
    /\ dbSteps = <<>>
    /\ dbStatus = "none"
    /\ discount = 0
    /\ items = 0
    /\ terminationReason = ""
    /\ PageClosed
    /\ ModalClosed
    /\ AuthIdle
    /\ EngineIdle
    /\ ApiIdle

NextPage ==
    \/ \E rows \in FormInputs, d \in PageDiscounts : FormSubmit(rows, d)
    \/ QuoteLoaded
    \/ \E p \in Personas : SetPersona(p)
    \/ StartWorkflow
    \/ \E i \in DOMAIN steps : ClickApprove(i)
    \/ \E i \in DOMAIN steps : ClickReject(i)
    \/ \E t \in Notes : TypeNotes(t)
    \/ ConfirmRejection
    \/ CancelRejection
    \/ \E i, j \in DOMAIN steps : Drop(i, j)
    \/ \E i \in DOMAIN dbSteps, a \in {"approve", "reject"} : OtherSessionActs(i, a)
    \/ OtherSessionReopens
    \/ OtherSessionStarts

SpecPage == InitPage /\ [][NextPage]_vars

(***************************************************************************)
(* The workflow page of a draft in the hands of the account executive: the *)
(* chain is edited (steps added, removed, dragged), each edit normalized   *)
(* and saved by handleWorkflowUpdate, and the workflow is started.         *)
(***************************************************************************)
MaxDraftEdits == 2

\* The personas of the panel Add New Approval Step.
PanelPersonas == {"deal_desk", "cro", "legal", "finance", "customer"}

AddStep(persona) ==
    /\ edits < MaxDraftEdits
    /\ addNewStep(persona)

RemoveStep(i) ==
    /\ edits < MaxDraftEdits
    /\ removeStep(i)

DragStep(draggedIndex, targetIndex) ==
    /\ edits < MaxDraftEdits
    /\ handleDrop(draggedIndex, targetIndex)

InitDraft ==
    /\ dbSteps = <<>>
    /\ dbStatus = "draft"
    /\ discount \in PageDiscounts
    /\ items = 1
    /\ terminationReason = ""
    /\ PageClosed
    /\ ModalClosed
    /\ AuthIdle
    /\ EngineIdle
    /\ ApiIdle

NextDraft ==
    \/ QuoteLoaded
    \/ \E p \in PanelPersonas : AddStep(p)
    \/ \E i \in DOMAIN steps : RemoveStep(i)
    \/ \E i, j \in DOMAIN steps : DragStep(i, j)
    \/ \E d \in PageDiscounts : FormUpdate(d)
    \/ StartWorkflow

SpecDraft == InitDraft /\ [][NextDraft]_vars

(***************************************************************************)
(* The workflow page of a quote that is submitted while it is edited: by   *)
(* the button of the page or from another session, between the start of a  *)
(* drag and its drop or before the page has fetched the quote again.       *)
(***************************************************************************)
DragStart(i) ==
    /\ edits < MaxDraftEdits
    /\ draggedStep = NoDrag
    /\ handleDragStart(i)

DropOn(targetIndex) ==
    /\ edits < MaxDraftEdits
    /\ handleDropOn(targetIndex)

AddLate(persona) ==
    /\ edits < MaxDraftEdits
    /\ addNewStep(persona)

RemoveLate(i) ==
    /\ edits < MaxDraftEdits
    /\ removeStep(i)

SwitchPersona(p) ==
    /\ p \in {"ae", "deal_desk"}
    /\ SetPersona(p)

Reload ==
    /\ QuoteLoaded

SubmitFromPage ==
    /\ StartWorkflow

SubmitElsewhere ==
    /\ OtherSessionStarts

NextEdit ==
    \/ Reload
    \/ \E p \in Personas : SwitchPersona(p)
    \/ \E i \in DOMAIN steps : DragStart(i)
    \/ \E j \in DOMAIN steps : DropOn(j)
    \/ \E p \in PanelPersonas : AddLate(p)
    \/ \E i \in DOMAIN steps : RemoveLate(i)
    \/ SubmitFromPage
    \/ SubmitElsewhere

SpecEdit == InitDraft /\ [][NextEdit]_vars

(***************************************************************************)
(* Properties of the chain of a draft                                      *)
(***************************************************************************)
\* The sequence positions of the steps shown (order) and of the rows
\* (step_order).
OrdersOf(s) == [i \in DOMAIN s |-> s[i].order]

StepOrdersOf(rows) == [i \in DOMAIN rows |-> rows[i].step_order]

ExactlyOneToN(positions) ==
    /\ {positions[i] : i \in DOMAIN positions} = 1..Len(positions)
    /\ \A i, j \in DOMAIN positions : positions[i] = positions[j] => i = j

\* C19: whatever chain operations were made on a quote (derivation of the
\* preview, a step added, a step removed, a step dragged, the account
\* executive put back first, the save), the sequence positions of its steps
\* are exactly 1..N, without gap and without duplicate: in the chain the
\* manager holds, in the chain the visualization holds and in the rows.
C19_PositionsExactlyOneToN ==
    /\ ExactlyOneToN(OrdersOf(workflowSteps))
    /\ ExactlyOneToN(OrdersOf(steps))
    /\ ExactlyOneToN(StepOrdersOf(dbSteps))

\* A chain saved after deal_desk was removed from it and cro added to it.
C19_Witness ==
    /\ pageOp = Op("add", TempId(DateNow(1)), "applied")
    /\ edits = 2
    /\ \A i \in DOMAIN workflowSteps : workflowSteps[i].persona # "deal_desk"
    /\ workflowSteps[Len(workflowSteps)].persona = "cro"
    /\ Len(dbSteps) = Len(workflowSteps)

OnePerPersona(s) ==
    \A i, j \in DOMAIN s : s[i].persona = s[j].persona => i = j

\* C20: whatever edits were made to a draft (a step added, a step removed,
\* a step dragged, the save), no persona appears in two steps of the chain
\* of the quote: not in the chain the manager holds, not in the chain the
\* visualization holds, not in the rows saved.
C20_OneStepPerPersona ==
    /\ OnePerPersona(workflowSteps)
    /\ OnePerPersona(steps)
    /\ OnePerPersona(dbSteps)

\* QuoteDetailModal renders the visualization with canEdit={false} and
\* compact={true}; its onWorkflowUpdate would send workflow.steps as given.
ModalCanEdit == FALSE

ModalCompact == TRUE

\* The handlers of the visualization that call onWorkflowUpdate are reached
\* from a draggable step (canDragAndDrop), from the trash button and from
\* the button Add Approval Step (canEdit, account executive, not compact).
ModalEditReachable(persona) ==
    \/ ModalCanEdit /\ persona = "ae"
    \/ ModalCanEdit /\ persona = "ae" /\ ~ModalCompact

\* An edit of the chain ran on the page in this step.
ChainEdited == edits' = edits + 1

\* The body of the PUT request the edit made.
SentToSave == stepsToSave(workflowSteps')

\* C21: every save of an edited draft chain is normalized: the chain the
\* manager keeps and the configuration it sends have the step of the
\* account executive at position 1, once, and positions 1..N, also when
\* the edit removed that step or dragged it away; and the modal, whose
\* handler would send the chain as given, lets no persona edit.
C21_SavedChainNormalized ==
    [][/\ \A p \in Personas : ~ModalEditReachable(p)
       /\ ChainEdited
          => /\ ~isWorkflowStarted /\ quote # NoQuote
             /\ SentToSave # <<>>
             /\ SentToSave[1].persona = "ae"
             /\ SentToSave[1].step_order = 1
             /\ \A i \in DOMAIN SentToSave :
                   SentToSave[i].persona = "ae" => i = 1
             /\ ExactlyOneToN(StepOrdersOf(SentToSave))
             /\ pageOp'.outcome = "applied"
                => /\ dbSteps'[1].persona = "ae"
                   /\ PersonasOf(dbSteps') = PersonasOf(SentToSave)]_vars

\* The step of the account executive was removed and saved back first.
C21_Witness ==
    /\ pageOp = Op("remove", TempId(1), "applied")
    /\ workflowSteps[1].id = AeTempId(Now)
    /\ workflowSteps[1].persona = "ae"
    /\ dbSteps[1].persona = "ae"
    /\ Len(dbSteps) = Len(workflowSteps)

\* An identifier the backend issued.
IssuedByBackend(id) == Len(id) > 0 /\ id[1] = "uuid"

\* C28: the configuration handleWorkflowUpdate sends carries no identifier
\* minted on the client: a step generated for the preview (step-<n>), added
\* on the page (step-<timestamp>) or put back for the account executive
\* (ae-step-<timestamp>) is sent without id, and every id sent was issued
\* by the backend.
C28_NoTemporaryIdentifierSaved ==
    [][(ChainEdited /\ ~isWorkflowStarted /\ quote # NoQuote)
          => \A i \in DOMAIN SentToSave :
                SentToSave[i].id = <<>> \/ IssuedByBackend(SentToSave[i].id)]_vars

\* C26: while the quote is a draft, a change of its discount regenerates
\* the preview: the chain the page shows when it loads the quote after the
\* change is the one derived from the new discount; and after the
\* submission a change of the discount is refused and leaves the steps.
C26_DiscountChangeRegeneratesPreview ==
    [][/\ (pageOp = Op("update", <<>>, "applied") /\ pageOp'.op = "load"
           /\ quote'.status \in Drafts)
          => PersonasOf(workflowSteps')
                 = PersonasOf(getWorkflowStepsForDiscount(discount))
       /\ pageOp'.op = "update"
          => /\ dbSteps' = dbSteps
             /\ dbStatus \notin Drafts => discount' = discount]_vars

\* The personas of the rows, in their order: the chain of the quote.
RowsChain(rows) == PersonasOf(rows)

\* C25: the steps of a quote and their order change only while the quote is
\* a draft and only by the account executive.  The rows change by the
\* submission that materializes them or by an edit the account executive
\* makes while the quote is draft or draft_reopened; and on a page that
\* shows the workflow as started, no step added, removed or dropped
\* changes the chain shown, also when the drag began before the
\* submission.
C25_ChainFixedAfterSubmission ==
    [][/\ RowsChain(dbSteps') # RowsChain(dbSteps)
          => /\ dbStatus \in Drafts
             /\ \/ pageOp'.op \in {"start", "otherstart"}
                \/ ChainEdited /\ currentPersona = "ae"
       /\ (ChainEdited /\ isWorkflowStarted)
          => /\ PersonasOf(workflowSteps') = PersonasOf(workflowSteps)
             /\ PersonasOf(steps') = PersonasOf(steps)]_vars

(***************************************************************************)
(* A quote driven through WorkflowEngine                                   *)
(***************************************************************************)
WorkflowActions == {"submit", "approve", "reject", "reopen", "cancel"}

\* QuoteActions.handleAction, the status following by getNextStatus.
EngineAction(persona, action) ==
    /\ IF canPerformAction(eQuote, persona, action)
       THEN /\ eQuote' = [eQuote EXCEPT !.status = getNextStatus(eQuote.status, action)]
            /\ eOp' = [action |-> action, persona |-> persona, outcome |-> "applied"]
       ELSE /\ eQuote' = eQuote
            /\ eOp' = [action |-> action, persona |-> persona, outcome |-> "refused"]
    /\ UNCHANGED <<derived, dbVars, pageVars, apiVars, modalVars, authVars>>

InitEngine ==
    /\ eQuote \in [status : {"draft"},
                   discount_percent : Discounts,
                   total_amount : {50000, 150000},
                   has_custom_payment_terms : BOOLEAN]
    /\ eOp = NoEngineOp
    /\ derived = NoDerivation
    /\ dbSteps = <<>>
    /\ dbStatus = "none"
    /\ discount = 0
    /\ items = 0
    /\ terminationReason = ""
    /\ PageClosed
    /\ ModalClosed
    /\ AuthIdle
    /\ ApiIdle

NextEngine == \E p \in Personas, a \in WorkflowActions : EngineAction(p, a)

SpecEngine == InitEngine /\ [][NextEngine]_vars

\* C9: after an approval that leaves a step of the chain to approve, the
\* status is pending_<persona of the lowest step still pending>: the step
\* after the one of the approving persona.
C9_StatusNamesNextPendingStep ==
    [][(eOp'.action = "approve" /\ eOp'.outcome = "applied")
       => LET chain == generateWorkflowSteps(eQuote)
              k == FindIndex(chain, LAMBDA s : s.persona = eOp'.persona)
          IN (k # 0 /\ k < Len(chain))
             => eQuote'.status = PendingStatus(chain[k + 1].persona)]_vars

\* The statuses of a quote that is not approved and not yet terminated.
OpenStatuses ==
    {"draft", "draft_reopened", "pending_deal_desk", "pending_cro", "pending_legal",
     "pending_finance", "rejected"}

\* The account executive is shown a way to terminate the quote.
TerminateOffered(q, persona) ==
    "cancel" \in getAvailableActions(q, persona) \/ canManageRejectedQuote(q, persona)

QuoteStatus == {"draft", "draft_reopened", "pending_deal_desk", "pending_cro",
                "pending_legal", "pending_finance", "approved", "rejected",
                "terminated"}

\* C23: in every state the status of the quote is one of draft,
\* draft_reopened, pending_deal_desk, pending_cro, pending_legal,
\* pending_finance, approved, rejected, terminated: no submit, approve,
\* reject, reopen or cancel of WorkflowEngine gives another one.
C23_StatusIsAQuoteStatus == eQuote.status \in QuoteStatus

(***************************************************************************)
(* The derivations of the approval chain of a quote: each is applied to    *)
(* the quote and the sequence of personas it gives is kept.                *)
(***************************************************************************)
\* The input of the discount field of the form: min 0, max 100.
MaxDiscount == 100

\* materialize(quote): the rows a submission inserts for the quote.
materialize(q) ==
    InsertRows(<<>>, DiscountPolicy(q.discount_percent, q.has_custom_payment_terms))

Derivation(by, chain) == [by |-> by, chain |-> chain]

DeriveEngine ==
    /\ derived' = Derivation("engine", PersonasOf(generateWorkflowSteps(eQuote)))
    /\ UNCHANGED <<eQuote, eOp, dbVars, pageVars, apiVars, modalVars, authVars>>

DerivePreview ==
    /\ derived' = Derivation("preview",
                             PersonasOf(getWorkflowStepsForDiscount(eQuote.discount_percent)))
    /\ UNCHANGED <<eQuote, eOp, dbVars, pageVars, apiVars, modalVars, authVars>>

DeriveForm ==
    /\ derived' = Derivation("form", FormPreview(eQuote.discount_percent))
    /\ UNCHANGED <<eQuote, eOp, dbVars, pageVars, apiVars, modalVars, authVars>>

Materialize ==
    /\ derived' = Derivation("submit", PersonasOf(materialize(eQuote)))
    /\ UNCHANGED <<eQuote, eOp, dbVars, pageVars, apiVars, modalVars, authVars>>

InitChain ==
    /\ eQuote \in [status : {"draft"},
                   discount_percent : 0..MaxDiscount,
                   total_amount : {50000, 150000},
                   has_custom_payment_terms : BOOLEAN]
    /\ eOp = NoEngineOp
    /\ derived = NoDerivation
    /\ dbSteps = <<>>
    /\ dbStatus = "none"
    /\ discount = 0
    /\ items = 0
    /\ terminationReason = ""
    /\ PageClosed
    /\ ModalClosed
    /\ AuthIdle
    /\ ApiIdle

NextChain ==
    \/ DeriveEngine
    \/ DerivePreview
    \/ DeriveForm
    \/ Materialize

SpecChain == InitChain /\ [][NextChain]_vars

Has(chain, p) == \E i \in DOMAIN chain : chain[i] = p

Position(chain, p) == FindIndex(chain, LAMBDA x : x = p)

\* C15: whatever the other attributes of the quote, a chain derived for it
\* holds the step of the chief revenue officer exactly when the discount is
\* above 15; a discount of 15 does not add it.
C15_CroIffDiscountAbove15 ==
    derived.by # "none"
    => (Has(derived.chain, "cro") <=> eQuote.discount_percent > 15)

\* C16: a chain derived for a quote holds the finance step exactly when the
\* discount is above 40 or the quote has custom payment terms; custom
\* payment terms add it at any discount.
C16_FinanceIffDiscountAbove40OrCustomTerms ==
    derived.by # "none"
    => (Has(derived.chain, "finance")
        <=> (eQuote.discount_percent > 40 \/ eQuote.has_custom_payment_terms))

\* C17: a chain derived has the account executive at position 1, deal_desk
\* at position 2, legal next to last and customer last; cro and finance,
\* when there, stand in that order between deal_desk and legal.
C17_ChainOrder ==
    derived.by # "none"
    => LET c == derived.chain
           n == Len(c)
       IN /\ n >= 4
          /\ c[1] = "ae"
          /\ c[2] = "deal_desk"
          /\ c[n - 1] = "legal"
          /\ c[n] = "customer"
          /\ Has(c, "cro") => (2 < Position(c, "cro") /\ Position(c, "cro") < n - 1)
          /\ Has(c, "finance")
             => (2 < Position(c, "finance") /\ Position(c, "finance") < n - 1)
          /\ (Has(c, "cro") /\ Has(c, "finance"))
             => Position(c, "cro") < Position(c, "finance")

\* C18: every derivation gives, for the same quote, the sequence of
\* personas of the chain materialized at its submission.
C18_DerivationsAgreeWithMaterialized ==
    derived.by # "none" => derived.chain = PersonasOf(materialize(eQuote))

(***************************************************************************)
(* The request path: the handlers of the list and of the modal, the API    *)
(* client, the endpoints.  The endpoints compare the version of the quote  *)
(* they read with the version at their commit (section 5 of the            *)
(* specification).                                                         *)
(***************************************************************************)
MaxVersion == 4

Other(s) == CHOOSE t \in Sessions : t # s

\* APIClient.request: the guard on the endpoint, then the request is sent.
ClientMintedEndpoint(kind, stepId) ==
    kind \in {"approve", "reject"} /\ StartsWithStep(stepId)

\* APIClient.approveStep
approveStepThrows(stepId) == StartsWithStep(stepId)

\* comments is what the handler was given, text what it puts in the body.
Send(s, kind, stepId, p, comments, text) ==
    /\ req[s].phase \in {"idle", "done"}
    /\ version < MaxVersion
    /\ req' = [req EXCEPT ![s] =
                  IF ClientMintedEndpoint(kind, stepId)
                     \/ (kind = "approve" /\ approveStepThrows(stepId))
                  THEN [phase |-> "done", kind |-> kind, stepId |-> stepId,
                        persona |-> p, comments |-> comments, text |-> text,
                        seen |-> 0, result |-> "thrown"]
                  ELSE [phase |-> "sent", kind |-> kind, stepId |-> stepId,
                        persona |-> p, comments |-> comments, text |-> text,
                        seen |-> 0, result |-> "none"]]
    /\ overlapped' = FALSE
    /\ UNCHANGED <<dbVars, pageVars, engineVars, modalVars, authVars, cache, version>>

currentStep(q, p) ==
    FindIndex(q.workflow_steps, LAMBDA step : step.persona = p /\ step.status = "pending")

\* useQuotes: the list is fetched.
Refetch(s) ==
    /\ req[s].phase \in {"idle", "done"}
    /\ cache[s] # ApiQuote(dbSteps, dbStatus, discount)
    /\ cache' = [cache EXCEPT ![s] = ApiQuote(dbSteps, dbStatus, discount)]
    /\ UNCHANGED <<dbVars, pageVars, engineVars, modalVars, authVars, req, version, overlapped>>

\* handleStartWorkflow
SubmitQuote(s, p) ==
    /\ cache[s].status \in {"draft", "draft_reopened"}
    /\ Send(s, "submit", <<>>, p, "", "")

\* handleApproveQuote, behind the Approve button of the table.
handleApproveQuote(s, p) ==
    /\ p # "ae"
    /\ cache[s].status = PendingStatus(p)
    /\ currentStep(cache[s], p) # 0
    /\ Send(s, "approve", cache[s].workflow_steps[currentStep(cache[s], p)].id, p, "", "")

\* handleRejectQuote, behind the Reject button of the table; the prompt
\* gives the reason.
handleRejectQuote(s, p, reason) ==
    /\ p # "ae"
    /\ cache[s].status = PendingStatus(p)
    /\ reason # ""
    /\ currentStep(cache[s], p) # 0
    /\ Send(s, "reject", cache[s].workflow_steps[currentStep(cache[s], p)].id, p,
            reason, reason)

\* QuotesManager.handleQuoteAction: the request it makes for an action and
\* the comments it was given ("" for none).
handleQuoteAction(s, p, action, comments) ==
    IF action = "reopen"
    THEN Send(s, "reopen", <<>>, p, comments, "")
    ELSE Send(s, "terminate", <<>>, p, comments,
              IF comments # "" THEN comments ELSE "Terminated by user")

\* handleRejectedQuoteAction of the modal, with handleQuoteAction of the
\* list as onQuoteAction: it passes the quote and the action, no comments.
\* The trash buttons of QuotesTable: one with Update for a draft, one with
\* Reopen for a rejected quote, one alone for every other status, each for
\* the account executive.
DeleteOffered(q, persona) ==
    \/ q.status \in {"draft", "draft_reopened"} /\ persona = "ae"
    \/ q.status = "rejected" /\ persona = "ae"
    \/ q.status \notin {"draft", "draft_reopened", "rejected"} /\ persona = "ae"

\* handleDeleteQuote, the confirm dialog accepted.
handleDeleteQuote(s, p) ==
    /\ cache[s].status # "none"
    /\ DeleteOffered(cache[s], p)
    /\ Send(s, "delete", <<>>, p, "", "")

handleRejectedQuoteAction(s, p, action) ==
    /\ canManageRejectedQuote(cache[s], p)
    /\ handleQuoteAction(s, p, action, "")

\* terminate(quote, reason) of the endpoints.
BackendTerminate(rows, status, persona, reason) ==
    IF persona # "ae" THEN Failure(rows, status, "AuthorizationError")
    ELSE IF status \in {"approved", "terminated"}
    THEN Failure(rows, status, "InvalidStateError")
    ELSE IF reason = "" THEN Failure(rows, status, "ValidationError")
    ELSE Success(rows, "terminated")

\* What an endpoint does to the tables for a request.
\* DELETE /api/quotes/{id}: the quote goes with its steps (ON DELETE
\* CASCADE), for the account executive and unless it is approved.  The code
\* of the endpoint is not part of the sources; section 3 of the
\* specification.
BackendDelete(rows, status, persona) ==
    IF status = "none" THEN Failure(rows, status, "NotFoundError")
    ELSE IF persona # "ae" THEN Failure(rows, status, "AuthorizationError")
    ELSE IF status = "approved" THEN Failure(rows, status, "InvalidStateError")
    ELSE Success(<<>>, "none")

Served(r) ==
    CASE r.kind = "submit" -> BackendSubmit(dbSteps, dbStatus, discount, items)
      [] r.kind = "delete" -> BackendDelete(dbSteps, dbStatus, r.persona)
      [] r.kind \in {"approve", "reject"} ->
             BackendAct(dbSteps, dbStatus, r.stepId, r.persona, r.kind, r.text)
      [] r.kind = "reopen" -> BackendReopen(dbSteps, dbStatus, r.persona)
      [] OTHER -> BackendTerminate(dbSteps, dbStatus, r.persona, r.text)

\* The commit without the comparison of versions.
Committed_Unversioned(r) == Served(r)

\* The commit of an endpoint: refused when the quote changed since it was read.
Committed(r) ==
    IF r.seen # version
    THEN Failure(dbSteps, dbStatus, "ConflictError")
    ELSE Served(r)

\* An endpoint starts on the request of a session and reads the quote.
BackendBegin(s) ==
    /\ req[s].phase = "sent"
    /\ req' = [req EXCEPT ![s].phase = "read", ![s].seen = version]
    /\ overlapped' = (overlapped \/ req[Other(s)].phase = "read")
    /\ UNCHANGED <<dbVars, pageVars, engineVars, modalVars, authVars, cache, version>>

\* The endpoint commits or fails; the response goes back.
BackendCommit(s) ==
    /\ req[s].phase = "read"
    /\ LET res == Committed(req[s])
       IN /\ dbSteps' = res.steps
          /\ dbStatus' = res.status
          /\ version' = IF res.ok THEN version + 1 ELSE version
          /\ req' = [req EXCEPT ![s].phase = "replied",
                                ![s].result = IF res.ok THEN "ok" ELSE res.error]
          /\ terminationReason' = IF res.ok /\ req[s].kind = "terminate"
                                  THEN req[s].text ELSE terminationReason
    /\ UNCHANGED <<discount, items, pageVars, engineVars, modalVars, authVars, cache, overlapped>>

\* The handler goes on after the response: a success refetches the list, a
\* failure is shown.
ClientDone(s) ==
    /\ req[s].phase = "replied"
    /\ req' = [req EXCEPT ![s].phase = "done"]
    /\ cache' = IF req[s].result = "ok"
                THEN [cache EXCEPT ![s] = ApiQuote(dbSteps, dbStatus, discount)]
                ELSE cache
    /\ UNCHANGED <<dbVars, pageVars, engineVars, modalVars, authVars, version, overlapped>>

Init ==
    /\ dbSteps = <<>>
    /\ dbStatus = "draft"
    /\ discount \in PageDiscounts
    /\ items = 1
    /\ terminationReason = ""
    /\ PageClosed
    /\ ModalClosed
    /\ AuthIdle
    /\ EngineIdle
    /\ ApiIdle

Next ==
    \/ \E s \in Sessions : Refetch(s)
    \/ \E s \in Sessions, p \in Personas : SubmitQuote(s, p)
    \/ \E s \in Sessions, p \in Personas : handleApproveQuote(s, p)
    \/ \E s \in Sessions, p \in Personas, reason \in Notes :
           handleRejectQuote(s, p, reason)
    \/ \E s \in Sessions, p \in Personas, a \in {"reopen", "cancel"} :
           handleRejectedQuoteAction(s, p, a)
    \/ \E s \in Sessions, p \in Personas : handleDeleteQuote(s, p)
    \/ \E s \in Sessions : BackendBegin(s)
    \/ \E s \in Sessions : BackendCommit(s)
    \/ \E s \in Sessions : ClientDone(s)

Spec == Init /\ [][Next]_vars

\* C8: of two requests on the quote that are open together, at most one
\* succeeds; the other gets a failure.
C8_AtMostOneOfTwoSucceeds ==
    overlapped => \E s \in Sessions : req[s].result # "ok"

C8_Witness ==
    /\ overlapped
    /\ \E s \in Sessions : /\ req[s].result = "ok"
                           /\ req[Other(s)].result = "ConflictError"

\* The endpoint answers the request of session s in this step.
Answered(s, kind) ==
    req[s].phase = "read" /\ req'[s].phase = "replied" /\ req[s].kind = kind

\* A request of the kind left the client of session s in this step.
Sent(s, kind) ==
    /\ req'[s].phase = "sent"
    /\ req[s].phase # "sent"
    /\ req'[s].kind = kind

\* C22: a rejection whose reason is empty or only blanks sends no request
\* and changes neither a step nor the quote: every reject request that
\* leaves the list carries a reason that is not blank, and every rejection
\* the endpoint applies was made with one.
C22_RejectNeedsAReason ==
    [][\A s \in Sessions :
          /\ Sent(s, "reject") => Trim(req'[s].text) # ""
          /\ (Answered(s, "reject") /\ Trim(req[s].text) = "")
             => UNCHANGED <<dbSteps, dbStatus>>]_vars

\* The personas a step can have.
StepPersonas == Personas \cup {"customer"}

\* The pending steps of a persona among the rows.
PendingOf(rows, p) ==
    {i \in DOMAIN rows : rows[i].persona = p /\ rows[i].status = "pending"}

\* C29: whenever the status of the quote is pending_p, it has exactly one
\* pending step of persona p, every step before it is approved and every
\* step after it is pending; so the first pending step of the persona, the
\* one handleApproveQuote and the modal act on, is the step next in turn.
C29_PendingStatusNamesTheStepInTurn ==
    \A p \in StepPersonas :
        dbStatus = PendingStatus(p)
        => /\ Cardinality(PendingOf(dbSteps, p)) = 1
           /\ \A k \in PendingOf(dbSteps, p) :
                 /\ \A i \in DOMAIN dbSteps :
                       /\ i < k => dbSteps[i].status = "approved"
                       /\ i > k => dbSteps[i].status = "pending"
                 /\ currentStep(ApiQuote(dbSteps, dbStatus, discount), p) = k

\* C24: a quote is deleted by the account executive only and only while it
\* is not approved: the delete is not offered for a quote shown as
\* approved, no delete request leaves the list for one, and no delete
\* succeeds on one.
C24_DeleteUnlessApproved ==
    [][\A s \in Sessions :
          /\ \A p \in Personas :
                DeleteOffered(cache[s], p) => p = "ae" /\ cache[s].status # "approved"
          /\ Sent(s, "delete")
             => req'[s].persona = "ae" /\ cache[s].status # "approved"
          /\ (Answered(s, "delete") /\ req'[s].result = "ok")
             => req[s].persona = "ae" /\ dbStatus # "approved"]_vars

\* C13: a terminate for which the account executive gave no reason fails
\* and leaves the status of the quote as it was; after a terminate that
\* succeeds the reason stored is the one the account executive gave.
C13_TerminateNeedsAReason ==
    [][\A s \in Sessions :
          Answered(s, "terminate")
          => IF req[s].comments = ""
             THEN req'[s].result # "ok" /\ dbStatus' = dbStatus
             ELSE req'[s].result = "ok" => terminationReason' = req[s].comments]_vars

\* C14: a reopen succeeds only for the account executive and only on a
\* rejected quote, and then the quote is draft_reopened and has no steps,
\* so that the page shows the preview derived anew, every step pending; a
\* reopen that fails changes nothing.  The engine allows reopen to the
\* account executive on a rejected quote only and names the same status.
C14_ReopenOnlyRejectedLeavesNoSteps ==
    [][\A s \in Sessions :
          Answered(s, "reopen")
          => /\ \A p \in Personas :
                   canPerformAction(cache[s], p, "reopen")
                       <=> (p = "ae" /\ cache[s].status = "rejected")
             /\ \A p \in Personas \ {"ae"} : ~BackendReopen(dbSteps, dbStatus, p).ok
             /\ IF req'[s].result = "ok"
                THEN /\ req[s].persona = "ae"
                     /\ dbStatus = "rejected"
                     /\ dbStatus' = "draft_reopened"
                     /\ dbStatus' = getNextStatus(dbStatus, "reopen")
                     /\ dbSteps' = <<>>
                     /\ QuoteEffect(ApiQuote(dbSteps', dbStatus', discount)).workflowSteps
                            = getWorkflowStepsForDiscount(discount)
                ELSE UNCHANGED dbVars]_vars

\* A rejected quote was reopened: its steps are gone.
C14_Witness ==
    \E s \in Sessions :
        /\ req[s].kind = "reopen"
        /\ req[s].phase = "replied"
        /\ req[s].result = "ok"
        /\ dbStatus = "draft_reopened"
        /\ dbSteps = <<>>

(***************************************************************************)
(* Properties of the workflow page                                         *)
(***************************************************************************)
StepActed == pageOp'.op \in {"approve", "reject"}

Applied == pageOp'.outcome = "applied"

Target(local) == FindIndex(local, LAMBDA s : s.id = pageOp'.stepId)

\* An identifier minted by the client: step-N or ae-step-N.
ClientMinted(id) == Len(id) > 0 /\ id[1] \in {"step-", "ae-"}

PageUnchanged == UNCHANGED <<dbVars, workflowSteps, steps>>

C10_SubmitOnlyDraftWithItems ==
    [][pageOp'.op \in {"start", "otherstart"}
       => IF Applied
          THEN /\ dbStatus \in {"draft", "draft_reopened"}
               /\ items >= 1
               /\ dbSteps = <<>> \/ Len(dbSteps') = Len(dbSteps)
          ELSE UNCHANGED dbVars]_vars

C10_Witness ==
    /\ pageOp = Op("start", <<>>, "error")
    /\ dbStatus \notin {"draft", "draft_reopened"}
    /\ items >= 1
    /\ \E i \in DOMAIN dbSteps : dbSteps[i].status = "approved"

AllPending(s) == \A i \in DOMAIN s : s[i].status = "pending"

Submitted == pageOp'.op \in {"start", "otherstart"} /\ Applied

\* C11: in every draft state every step is pending, the one of the account
\* executive included, in the table and in the preview the page derives
\* from a draft; a step of the account executive becomes approved by a
\* submission only; and right after a successful submission that step is
\* approved, every other step is pending and the status of the quote is
\* pending_<persona of the first step that is not the account executive's>.
\* For a chain as derived that is also the answer of WorkflowEngine.
C11_AccountExecutiveApprovedBySubmission ==
    [][/\ dbStatus' \in Drafts => AllPending(dbSteps')
       /\ (pageOp'.op = "load" /\ quote'.status \in Drafts) => AllPending(workflowSteps')
       /\ (\E i \in DOMAIN dbSteps' :
              /\ dbSteps'[i].persona = "ae"
              /\ dbSteps'[i].status = "approved"
              /\ ~(i \in DOMAIN dbSteps /\ dbSteps[i] = dbSteps'[i]))
          => Submitted
       /\ Submitted
          => LET first == FindIndex(dbSteps', LAMBDA r : r.persona # "ae")
             IN /\ dbSteps' # <<>>
                /\ dbSteps'[1].persona = "ae"
                /\ \A i \in DOMAIN dbSteps' :
                      dbSteps'[i].status = IF dbSteps'[i].persona = "ae"
                                           THEN "approved" ELSE "pending"
                /\ first # 0
                /\ dbStatus' = PendingStatus(dbSteps'[first].persona)
                /\ dbSteps = <<>>
                   => getNextStatus(dbStatus, "submit")
                          = PendingStatus(dbSteps'[first].persona)]_vars

\* A quote submitted from the page with legal dragged in front of deal_desk.
C11_Witness ==
    /\ pageOp = Op("start", <<>>, "applied")
    /\ Len(dbSteps) > 2
    /\ dbSteps[1].persona = "ae" /\ dbSteps[1].status = "approved"
    /\ dbSteps[2].persona = "legal" /\ dbSteps[2].status = "pending"
    /\ dbStatus = "pending_legal"

(***************************************************************************)
(* Properties of the tables                                                *)
(***************************************************************************)
NonCustomerApproved(rows) ==
    /\ rows # <<>>
    /\ \A i \in DOMAIN rows : rows[i].persona # "customer" => rows[i].status = "approved"

\* C1: a step changes from pending to approved only if every step at a
\* lower position is approved; the statement approving a step out of turn
\* is rejected.
C1_ApprovedOnlyInTurn ==
    [][\A i \in DOMAIN dbSteps :
          (/\ i \in DOMAIN dbSteps'
           /\ dbSteps[i].status = "pending"
           /\ dbSteps'[i].status = "approved")
          => \A j \in 1..(i - 1) : dbSteps'[j].status = "approved"]_vars

maxAttempts == 10

\* canTakeAction of the modal, on the quote as it reads it.
ModalCanTakeAction(p) == p # "ae" /\ modal.visible = PendingStatus(p)

\* The modal is opened from the list by a persona, once the list shows the
\* quote as it is.
ModalOpen(p) ==
    /\ modal.phase = "closed"
    /\ modal.visible = dbStatus
    /\ modal' = [modal EXCEPT !.phase = "open", !.persona = p, !.attempts = 0]
    /\ UNCHANGED <<dbVars, pageVars, engineVars, apiVars, authVars>>

ModalClose ==
    /\ modal.phase = "open"
    /\ modal' = [modal EXCEPT !.phase = "closed"]
    /\ UNCHANGED <<dbVars, pageVars, engineVars, apiVars, authVars>>

\* handleAction("approve"): the step of the persona is looked up, whether it
\* is the last internal approval is worked out before the call, the step is
\* approved, and one of the two timers is set.
ModalApprove ==
    /\ modal.phase = "open"
    /\ modal.visible = dbStatus
    /\ ModalCanTakeAction(modal.persona)
    /\ LET k == FindIndex(dbSteps, LAMBDA st : st.persona = modal.persona
                                               /\ st.status = "pending")
           customerStep == FindIndex(dbSteps, LAMBDA st : st.persona = "customer")
           pendingInternalSteps ==
               {i \in DOMAIN dbSteps : /\ dbSteps[i].persona # "customer"
                                        /\ dbSteps[i].status = "pending"
                                        /\ i # k}
           isLastInternalApproval == pendingInternalSteps = {} /\ customerStep # 0
           res == BackendAct(dbSteps, dbStatus, dbSteps[k].id, modal.persona,
                             "approve", "")
       IN /\ k # 0
          /\ IF res.ok
             THEN /\ dbSteps' = res.steps
                  /\ dbStatus' = res.status
                  /\ modal' = [modal EXCEPT
                                  !.phase = IF isLastInternalApproval
                                            THEN "waiting" ELSE "polling",
                                  !.attempts = 0,
                                  !.last = isLastInternalApproval]
             ELSE /\ UNCHANGED <<dbSteps, dbStatus>>
                  /\ modal' = modal
    /\ UNCHANGED <<discount, items, terminationReason, pageVars, engineVars, apiVars,
                   authVars>>

\* The reads of the quote catch up with the tables.
Reflect ==
    /\ modal.visible # dbStatus
    /\ modal' = [modal EXCEPT !.visible = dbStatus]
    /\ UNCHANGED <<dbVars, pageVars, engineVars, apiVars, authVars>>

\* The timer of 2 seconds after the last internal approval: one refetch.
DelayedCheck ==
    /\ modal.phase = "waiting"
    /\ modal' = IF modal.visible = "approved"
                THEN [modal EXCEPT !.phase = "closed", !.shown = TRUE]
                ELSE [modal EXCEPT !.phase = "open"]
    /\ UNCHANGED <<dbVars, pageVars, engineVars, apiVars, authVars>>

\* checkApprovalStatus, the timer after any other approval: a refetch every
\* second, maxAttempts times at most.
checkApprovalStatus ==
    /\ modal.phase = "polling"
    /\ modal' = IF modal.visible = "approved"
                THEN [modal EXCEPT !.phase = "closed", !.shown = TRUE,
                                   !.attempts = modal.attempts + 1]
                ELSE IF modal.attempts + 1 < maxAttempts
                THEN [modal EXCEPT !.attempts = modal.attempts + 1]
                ELSE [modal EXCEPT !.phase = "closed",
                                   !.attempts = modal.attempts + 1]
    /\ UNCHANGED <<dbVars, pageVars, engineVars, apiVars, authVars>>

\* A quote with an item, submitted.
InitModal ==
    /\ discount \in PageDiscounts
    /\ items = 1
    /\ dbSteps = BackendSubmit(<<>>, "draft", discount, items).steps
    /\ dbStatus = BackendSubmit(<<>>, "draft", discount, items).status
    /\ terminationReason = ""
    /\ draggedStep = NoDrag
    /\ quote = NoQuote
    /\ workflowSteps = <<>>
    /\ isWorkflowStarted = FALSE
    /\ steps = <<>>
    /\ selectedAction = NoSelection
    /\ rejectionNotes = ""
    /\ currentPersona = "ae"
    /\ edits = 0
    /\ pageOp = NoOp
    /\ EngineIdle
    /\ ApiIdle
    /\ modal = [NoModal EXCEPT !.visible = dbStatus]
    /\ AuthIdle

NextModal ==
    \/ \E p \in Personas : ModalOpen(p)
    \/ ModalClose
    \/ ModalApprove
    \/ Reflect
    \/ DelayedCheck
    \/ checkApprovalStatus

\* The timers fire and the reads catch up.
SpecModal ==
    /\ InitModal
    /\ [][NextModal]_vars
    /\ WF_vars(Reflect)
    /\ WF_vars(DelayedCheck)
    /\ WF_vars(checkApprovalStatus)

\* C27: after the last approver before the customer has approved, the popup
\* Quote Sent to Customer is eventually shown to them, the quote being
\* approved, however late the reads of the quote show the approval of the
\* customer step.
C27_PopupEventuallyShown ==
    (modal.last /\ dbStatus = "approved") ~> (modal.shown /\ dbStatus = "approved")


\* ------------------------------------------------------------------------
\* The acting persona: Providers, DashboardLayout, the header and APIClient.
\* ------------------------------------------------------------------------

MaxRequests == 3

AuthEvents == {"SIGNED_IN", "TOKEN_REFRESHED", "SIGNED_OUT"}

\* DashboardLayout shows the header and the pages.
Rendered == auth.route = "dashboard" /\ ~auth.loading /\ auth.user

\* The effect of DashboardLayout: without a user, once loading is over, the
\* browser goes to /login.  DashboardLayout is unmounted there, and its state
\* currentPersona starts at 'ae' when it is mounted again.
RouteAfter(route, loading, user) ==
    IF route = "dashboard" /\ ~loading /\ ~user THEN "login" ELSE route

\* The body of the two callbacks of the auth effect that is common to them.
StoreSession(a, hasSession) ==
    [a EXCEPT !.user = hasSession,
              !.token = IF hasSession THEN TRUE ELSE a.token,
              !.storage = IF hasSession THEN "ae" ELSE a.storage]

\* supabase.auth.getSession().then(...): the session check.
getSession ==
    /\ auth.loading
    /\ LET a == [StoreSession(auth, auth.session) EXCEPT !.loading = FALSE]
           r == RouteAfter(a.route, a.loading, a.user)
       IN /\ auth' = [a EXCEPT !.route = r]
          /\ currentPersona' = IF r = "login" THEN "ae" ELSE currentPersona
    /\ UNCHANGED <<quote, workflowSteps, isWorkflowStarted, steps, draggedStep,
                   selectedAction, rejectionNotes, edits, pageOp>>
    /\ UNCHANGED <<dbVars, engineVars, apiVars, modalVars>>

\* The callback of supabase.auth.onAuthStateChange.
onAuthStateChange(event) ==
    /\ (event = "SIGNED_OUT") <=> ~auth.session
    /\ LET a == IF auth.session
                THEN StoreSession(auth, TRUE)
                ELSE [auth EXCEPT !.user = FALSE, !.token = FALSE,
                                  !.storage = "none"]
           pushed == IF auth.session /\ event = "SIGNED_IN"
                     THEN "dashboard" ELSE a.route
           r == RouteAfter(pushed, a.loading, a.user)
       IN /\ auth' = [a EXCEPT !.route = r]
          /\ currentPersona' = IF r = "login" \/ auth.route = "login"
                               THEN "ae" ELSE currentPersona
    /\ UNCHANGED <<quote, workflowSteps, isWorkflowStarted, steps, draggedStep,
                   selectedAction, rejectionNotes, edits, pageOp>>
    /\ UNCHANGED <<dbVars, engineVars, apiVars, modalVars>>

\* onValueChange of the select Acting as of the header.
onValueChange(value) ==
    /\ Rendered
    /\ value # currentPersona
    /\ currentPersona' = value
    /\ auth' = [auth EXCEPT !.storage = IF auth.storage = "none"
                                        THEN "none" ELSE value]
    /\ UNCHANGED <<quote, workflowSteps, isWorkflowStarted, steps, draggedStep,
                   selectedAction, rejectionNotes, edits, pageOp>>
    /\ UNCHANGED <<dbVars, engineVars, apiVars, modalVars>>

\* signOut of Providers, from the button of the sidebar.
signOut ==
    /\ Rendered
    /\ auth' = [auth EXCEPT !.session = FALSE, !.storage = "none",
                            !.route = "login"]
    /\ currentPersona' = "ae"
    /\ UNCHANGED <<quote, workflowSteps, isWorkflowStarted, steps, draggedStep,
                   selectedAction, rejectionNotes, edits, pageOp>>
    /\ UNCHANGED <<dbVars, engineVars, apiVars, modalVars>>

\* signIn of Providers: the browser comes back from the provider to
\* /dashboard, a page load: Providers and DashboardLayout are mounted anew.
signIn ==
    /\ auth.route = "login"
    /\ ~auth.session
    /\ auth' = [auth EXCEPT !.session = TRUE, !.user = FALSE, !.loading = TRUE,
                            !.token = FALSE, !.route = "dashboard"]
    /\ currentPersona' = "ae"
    /\ UNCHANGED <<quote, workflowSteps, isWorkflowStarted, steps, draggedStep,
                   selectedAction, rejectionNotes, edits, pageOp>>
    /\ UNCHANGED <<dbVars, engineVars, apiVars, modalVars>>

\* The header X-User-Persona of APIClient.request; "absent" when it is not set.
PersonaHeader(storage) == IF storage = "none" THEN "absent" ELSE storage

\* A page of the dashboard makes a request.
request ==
    /\ Rendered
    /\ auth.requests < MaxRequests
    /\ auth' = [auth EXCEPT !.header = PersonaHeader(auth.storage),
                            !.requests = auth.requests + 1]
    /\ UNCHANGED <<dbVars, pageVars, engineVars, apiVars, modalVars>>

\* The application is loaded in a browser that may hold a session and a stored
\* user from before.
InitPersona ==
    /\ dbSteps = <<>>
    /\ dbStatus = "none"
    /\ discount = 0
    /\ items = 0
    /\ terminationReason = ""
    /\ PageClosed
    /\ ModalClosed
    /\ EngineIdle
    /\ ApiIdle
    /\ \E session \in BOOLEAN, stored \in Personas \cup {"none"} :
          auth = [SignedIn EXCEPT !.session = session, !.user = FALSE,
                                  !.loading = TRUE, !.token = FALSE,
                                  !.storage = stored]

NextPersona ==
    \/ getSession
    \/ \E event \in AuthEvents : onAuthStateChange(event)
    \/ \E value \in Personas : onValueChange(value)
    \/ signOut
    \/ signIn
    \/ request

SpecPersona == InitPersona /\ [][NextPersona]_vars

Requested == auth'.requests = auth.requests + 1

\* C30: at every request the header X-User-Persona, read from the stored
\* user, is the persona selected in the header of the dashboard
\* (currentPersona), whatever the order of persona switches, the session check
\* and auth state changes before it.
C30_HeaderIsSelectedPersona ==
    [][Requested => auth'.header = currentPersona]_vars

=============================================================================
